---- MODULE Spec2Model ----
(***************************************************************************)
(* Model of the MCP control-panel API (src/mcp): the identity resolver,    *)
(* the in-memory owner session state, the activity log, the streaming      *)
(* gateway wrappers and the HTTP handlers that arbitrate between them.     *)
(*                                                                         *)
(* Strings that the code inspects character by character (credentials,     *)
(* the owner secret, user labels, song and artist names) are sequences of  *)
(* one-character strings; opaque strings (URIs, action names, messages)    *)
(* are TLA+ strings.                                                       *)
(***************************************************************************)
EXTENDS Integers, Sequences, FiniteSets, TLC

VARIABLES
    AIDAN_API_KEY,    \* config.AIDAN_API_KEY, read once at import
    PUSHOVER_SET,     \* TRUE iff PUSHOVER_API_TOKEN and PUSHOVER_USER_KEY are both non-empty
    token_cache,      \* the OAuth token cache file (CACHE_PATH): "none" or "valid"
    STATE_MAP,        \* utils.STATE: user key -> reference into heap (0: no entry)
    heap,             \* the state dictionaries ever created, by reference
    activity_logs,    \* rows of the sqlite table activity_logs, in insertion order
    budget,           \* number of requests the run may still handle
    arrivals,         \* history: the guest playback requests handled, in arrival order
    last,             \* the request handled last and its response
    twin,             \* the last request as handled with the other outcome of the log store
    thr               \* the concurrent handlers: per-thread position and locals

vars == <<AIDAN_API_KEY, PUSHOVER_SET, token_cache, STATE_MAP, heap, activity_logs,
          budget, arrivals, last, twin, thr>>

\* ---------------------------------------------------------------- bounds

MaxRequests == 1

MaxPlay == 2

MaxKeyLen == 3

MaxResolve == 2

NumThreads == 2

\* ---------------------------------------------------------------- strings

\* Python None, for Optional[str] values and absent dictionary entries.
None == <<"None">>

\* Python truthiness of an Optional[str].
Truthy(s) == s # None /\ s # <<>>

RECURSIVE lstrip(_)
lstrip(s) == IF s # <<>> /\ Head(s) = " " THEN lstrip(Tail(s)) ELSE s

RECURSIVE rstrip(_)
rstrip(s) == IF s # <<>> /\ s[Len(s)] = " " THEN rstrip(SubSeq(s, 1, Len(s) - 1)) ELSE s

\* str.strip()
strip(s) == rstrip(lstrip(s))

\* s[:n]
Prefix(s, n) == SubSeq(s, 1, IF Len(s) < n THEN Len(s) ELSE n)

\* sep.join(parts)
RECURSIVE join(_, _)
join(sep, parts) ==
    IF parts = <<>> THEN <<>>
    ELSE IF Len(parts) = 1 THEN parts[1]
    ELSE parts[1] \o sep \o join(sep, Tail(parts))

\* ---------------------------------------------------------------- identity

LabelPrefixLen == 6

Aidan == <<"A", "i", "d", "a", "n">>
Anonymous == <<"A", "n", "o", "n", "y", "m", "o", "u", "s">>
UserLabel(fragment) == <<"U", "s", "e", "r", "(">> \o fragment \o <<")">>

identify_user_nostrip(api_key, known_owner_key) ==
    IF Truthy(api_key) /\ Truthy(known_owner_key) /\ api_key = known_owner_key
    THEN Aidan
    ELSE IF Truthy(api_key) THEN UserLabel(Prefix(api_key, LabelPrefixLen))
    ELSE Anonymous

identify_user_nosecrettest(api_key, known_owner_key) ==
    IF Truthy(api_key) /\ strip(api_key) = strip(known_owner_key)
    THEN Aidan
    ELSE IF Truthy(api_key) THEN UserLabel(Prefix(api_key, LabelPrefixLen))
    ELSE Anonymous

identify_user(api_key, known_owner_key) ==
    IF Truthy(api_key) /\ Truthy(known_owner_key)
       /\ strip(api_key) = strip(known_owner_key)
    THEN Aidan
    ELSE IF Truthy(api_key) THEN UserLabel(Prefix(api_key, LabelPrefixLen))
    ELSE Anonymous

\* ---------------------------------------------------------------- owner session state

\* The key every handler passes to the state helpers.
OwnerKey == "Aidan"

\* The keys STATE is ever indexed with.
Keys == {OwnerKey}

DefaultState == [queue |-> <<>>, last_played |-> None, online |-> FALSE]

\* The store as a pair: the STATE dictionary and the objects it refers to.
Store(S, H) == [S |-> S, H |-> H]

\* "user in STATE"
HasKey(S, user) == S[user] # 0

get_user_state_fresh(st, user) ==
    Store([st.S EXCEPT ![user] = Len(st.H) + 1], Append(st.H, DefaultState))

\* get_user_state: the store after the call (the entry is created when absent).
get_user_state(st, user) ==
    IF HasKey(st.S, user) THEN st
    ELSE Store([st.S EXCEPT ![user] = Len(st.H) + 1], Append(st.H, DefaultState))

\* The dictionary get_user_state returns, read from the store after the call.
StateOf(st, user) == st.H[st.S[user]]

QueueRecord(track_uri, track_name, requester) ==
    [uri |-> track_uri, name |-> track_name, requested_by |-> requester]

add_to_queue_dropped(st, user, track_uri, track_name, requester) ==
    get_user_state(st, user)

add_to_queue_front(st, user, track_uri, track_name, requester) ==
    LET st1 == get_user_state(st, user)
        ref == st1.S[user]
    IN Store(st1.S,
             [st1.H EXCEPT ![ref].queue =
                 <<QueueRecord(track_uri, track_name, requester)>> \o @])

add_to_queue(st, user, track_uri, track_name, requester) ==
    LET st1 == get_user_state(st, user)
        ref == st1.S[user]
    IN Store(st1.S,
             [st1.H EXCEPT ![ref].queue =
                 Append(@, QueueRecord(track_uri, track_name, requester))])

set_last_played_reset(st, user, track_name) ==
    LET st1 == get_user_state(st, user)
    IN Store(st1.S, [st1.H EXCEPT ![st1.S[user]] =
                        [DefaultState EXCEPT !.last_played = <<"track", track_name>>]])

set_last_played(st, user, track_name) ==
    LET st1 == get_user_state(st, user)
    IN Store(st1.S, [st1.H EXCEPT ![st1.S[user]].last_played = <<"track", track_name>>])

set_online(st, user, online) ==
    LET st1 == get_user_state(st, user)
    IN Store(st1.S, [st1.H EXCEPT ![st1.S[user]].online = online])

\* The owner's queue as the program sees it (empty while no entry exists).
OwnerQueue == IF HasKey(STATE_MAP, OwnerKey) THEN heap[STATE_MAP[OwnerKey]].queue ELSE <<>>

\* ---------------------------------------------------------------- activity log

LogRow(user, action, details) == [user |-> user, action |-> action, details |-> details]

\* log_to_sqlite: the table after the INSERT; raises when the store is out.
log_to_sqlite(rows, user, action, details) == Append(rows, LogRow(user, action, details))

\* log_action: the table after the call, and whether an exception leaves it.
\* store_ok = FALSE is an outage of the sqlite store: log_to_sqlite raises
\* and the exception is swallowed.
log_action_unguarded(rows, user, action, details, store_ok) ==
    IF store_ok THEN [rows |-> log_to_sqlite(rows, user, action, details), raised |-> FALSE]
    ELSE [rows |-> rows, raised |-> TRUE]

log_action(rows, user, action, details, store_ok) ==
    IF store_ok THEN [rows |-> log_to_sqlite(rows, user, action, details), raised |-> FALSE]
    ELSE [rows |-> rows, raised |-> FALSE]

\* ---------------------------------------------------------------- streaming gateway

\* What a wrapped gateway function did: the value it returned (tag), the
\* upstream client calls it made, and whether an exception left it (raised);
\* for play_song_radio also the URIs sp.recommendations returned (recs) and
\* the URIs handed to sp.start_playback (started).
GwResult(tag, up, raised) ==
    [tag |-> tag, up |-> up, raised |-> raised, recs |-> <<>>, started |-> <<>>]

NotAuthenticated == "error: not authenticated"
UpstreamError == "error: upstream exception"

\* get_spotify_client: TRUE iff a client is returned (None otherwise).
\* refresh_ok: oauth.get_access_token on the cached token does not raise.
get_spotify_client(cache, refresh_ok) == cache # "none" /\ refresh_ok

\* The shape shared by the wrappers that guard one upstream call with
\* "if not sp" and try/except.
Wrapped(sp, up, call, okTag) ==
    IF ~sp THEN GwResult(NotAuthenticated, <<>>, FALSE)
    ELSE IF up = "raise" THEN GwResult(UpstreamError, <<call>>, FALSE)
    ELSE GwResult(okTag, <<call>>, FALSE)

play_playlist(sp, up) == Wrapped(sp, up, "start_playback(context_uri)", "playing playlist")

play_track(sp, up) == Wrapped(sp, up, "start_playback(uris)", "playing track")

\* sp.recommendations raised.
RecRaise == <<"raise">>

\* recs: what sp.recommendations does: it raises (RecRaise) or returns tracks,
\* of which the function keeps the URIs; up: the outcome of sp.start_playback.
play_song_radio_noguard(sp, recs, up) ==
    IF ~sp THEN GwResult(NotAuthenticated, <<>>, FALSE)
    ELSE IF recs = RecRaise
         THEN [GwResult(UpstreamError, <<"recommendations">>, FALSE) EXCEPT !.recs = recs]
    ELSE LET uris == recs
         IN IF up = "raise"
            THEN [GwResult(UpstreamError, <<"recommendations", "start_playback(uris)">>, FALSE)
                     EXCEPT !.recs = recs, !.started = uris]
            ELSE [GwResult("started song radio",
                           <<"recommendations", "start_playback(uris)">>, FALSE)
                     EXCEPT !.recs = recs, !.started = uris]

play_song_radio(sp, recs, up) ==
    IF ~sp THEN GwResult(NotAuthenticated, <<>>, FALSE)
    ELSE IF recs = RecRaise
         THEN [GwResult(UpstreamError, <<"recommendations">>, FALSE) EXCEPT !.recs = recs]
    ELSE LET uris == recs
         IN IF uris = <<>>
            THEN [GwResult("error: no recommendations found", <<"recommendations">>, FALSE)
                     EXCEPT !.recs = recs]
            ELSE IF up = "raise"
            THEN [GwResult(UpstreamError, <<"recommendations", "start_playback(uris)">>, FALSE)
                     EXCEPT !.recs = recs, !.started = uris]
            ELSE [GwResult("started song radio",
                           <<"recommendations", "start_playback(uris)">>, FALSE)
                     EXCEPT !.recs = recs, !.started = uris]

play_next_track(sp, up) == Wrapped(sp, up, "next_track", "skipped")

resume_playback(sp, up) == Wrapped(sp, up, "start_playback()", "resumed")

pause_playback(sp, up) == Wrapped(sp, up, "pause_playback", "paused")

previous_track(sp, up) == Wrapped(sp, up, "previous_track", "previous")

set_volume(sp, up) == Wrapped(sp, up, "volume", "volume set")

\* search_tracks returns None (tag "None") without a session or on an exception.
search_tracks(sp, up) ==
    IF ~sp THEN GwResult("None", <<>>, FALSE)
    ELSE IF up = "raise" THEN GwResult("None", <<"search">>, FALSE)
    ELSE IF up = "empty" THEN GwResult("[]", <<"search">>, FALSE)
    ELSE GwResult("[tracks]", <<"search">>, FALSE)

get_recommendations(sp, up) ==
    IF ~sp THEN GwResult("[]", <<>>, FALSE)
    ELSE IF up \in {"raise", "empty"} THEN GwResult("[]", <<"recommendations">>, FALSE)
    ELSE GwResult("[tracks]", <<"recommendations">>, FALSE)

create_playlist_gw(sp, up) ==
    IF ~sp THEN GwResult(NotAuthenticated, <<>>, FALSE)
    ELSE IF up = "raise" THEN GwResult(UpstreamError, <<"current_user">>, FALSE)
    ELSE IF up = "empty"
         THEN GwResult("None", <<"current_user", "user_playlist_create">>, FALSE)
    ELSE GwResult("playlist", <<"current_user", "user_playlist_create">>, FALSE)

add_tracks_to_playlist(sp, up) == Wrapped(sp, up, "playlist_add_items", "added")

get_user_playlists(sp, up) ==
    IF ~sp THEN GwResult("[]", <<>>, FALSE)
    ELSE IF up \in {"raise", "empty"} THEN GwResult("[]", <<"current_user_playlists">>, FALSE)
    ELSE GwResult("[playlists]", <<"current_user_playlists">>, FALSE)

get_playlist_tracks(sp, up) ==
    IF ~sp THEN GwResult("[]", <<>>, FALSE)
    ELSE IF up \in {"raise", "empty"} THEN GwResult("[]", <<"playlist_tracks">>, FALSE)
    ELSE GwResult("[tracks]", <<"playlist_tracks">>, FALSE)

get_user_profile(sp, up) ==
    IF ~sp THEN GwResult("{}", <<>>, FALSE)
    ELSE IF up \in {"raise", "empty"} THEN GwResult("{}", <<"current_user">>, FALSE)
    ELSE GwResult("profile", <<"current_user">>, FALSE)

\* get_current_song: the pair (name, artists) it returns. pb is what
\* sp.current_playback() does: "raise", None (nothing is playing or the
\* playback has no item), or the item [name, artists]; the call is outside any
\* try, so its exception leaves the function.
get_current_song(sp, pb) ==
    IF ~sp THEN [song |-> None, artist |-> None, up |-> <<>>, raised |-> FALSE]
    ELSE IF pb = <<"raise">>
         THEN [song |-> None, artist |-> None, up |-> <<"current_playback">>, raised |-> TRUE]
    ELSE IF pb = None
         THEN [song |-> None, artist |-> None, up |-> <<"current_playback">>, raised |-> FALSE]
    ELSE [song |-> pb[1], artist |-> join(<<",", " ">>, pb[2]),
          up |-> <<"current_playback">>, raised |-> FALSE]

\* get_auth_url builds the authorize URL; no upstream call is made.
get_auth_url == GwResult("auth_url", <<>>, FALSE)

\* handle_callback: the code exchange; its exception is not caught.
handle_callback(exchange_ok) ==
    IF exchange_ok THEN GwResult("token_info", <<"get_access_token(code)">>, FALSE)
    ELSE GwResult("None", <<"get_access_token(code)">>, TRUE)

\* send_notification (thepusherrr): raises when the credentials are missing or
\* the transport answers with an error status.
send_notification(configured, post_ok) ==
    IF ~configured THEN GwResult("None", <<>>, TRUE)
    ELSE IF ~post_ok THEN GwResult("None", <<"requests.post">>, TRUE)
    ELSE GwResult("sent", <<"requests.post">>, FALSE)

\* ---------------------------------------------------------------- handlers

\* The functions tools/spotify.py defines: api.py reaches them as attributes
\* of the module, and a name outside this set raises AttributeError.
SpotifyFunctions ==
    {"get_spotify_client", "get_auth_url", "handle_callback", "get_current_song",
     "play_playlist", "play_track", "play_song_radio", "play_next_track",
     "resume_playback", "pause_playback", "previous_track", "set_volume",
     "search_tracks", "get_recommendations", "create_playlist",
     "add_tracks_to_playlist", "get_user_playlists", "get_playlist_tracks",
     "get_user_profile"}

\* "user != 'Aidan'", the owner test of the handlers.
NotOwnerAlways(user) == TRUE

NotOwnerNever(user) == FALSE

NotOwner(user) == user # Aidan

\* A request and its response. arg: the resource the request names. status:
\* "ok" (a returned value), "forbidden" (HTTPException 403) or "fault" (an
\* exception left the handler). gw: the gateway functions the handler
\* invoked; up: the upstream client calls those made; session: whether
\* get_spotify_client found a usable upstream session during the request;
\* recs, started: the URIs sp.recommendations returned and the URIs handed to
\* sp.start_playback (play_song_radio); limit: the limit parameter of /logs.
BaseResp(ep, cred, user) ==
    [ep |-> ep, cred |-> cred, user |-> user, arg |-> "", status |-> "ok", tag |-> "",
     session |-> FALSE, queue_length |-> 0, queue |-> <<>>, gw |-> <<>>, up |-> <<>>,
     recs |-> <<>>, started |-> <<>>,
     song |-> None, artist |-> None, log_read |-> FALSE, limit |-> 0, logs |-> <<>>]

\* What a handler does: its response and the state it leaves.
Out(resp, st, rows, cache) ==
    [resp |-> resp, st |-> st, rows |-> rows, cache |-> cache]

Here == Store(STATE_MAP, heap)

\* Whether get_spotify_client returns a client during this request.
Sp(env) == get_spotify_client(token_cache, env.gw # "refresh_fail")

\* An exception leaves the handler after the effects made so far.
Fault(base, gw, up, st, rows, cache) ==
    Out([base EXCEPT !.status = "fault", !.gw = gw, !.up = up], st, rows, cache)

\* The body shared by the handlers of the shape
\*   user = identify_user(..); log_action(..); return spotify.<fname>(..)
\* r is what spotify.<fname> does when it exists; tag is the body made of its value.
Delegated(ep, cred, action, details, fname, r, tag, env) ==
    LET user == identify_user(cred, AIDAN_API_KEY)
        base == BaseResp(ep, cred, user)
        lg == log_action(activity_logs, user, action, details, env.store_ok)
    IN IF lg.raised THEN Fault(base, <<>>, <<>>, Here, lg.rows, token_cache)
       ELSE IF fname \notin SpotifyFunctions
            THEN Fault(base, <<>>, <<>>, Here, lg.rows, token_cache)
       ELSE IF r.raised THEN Fault(base, <<fname>>, r.up, Here, lg.rows, token_cache)
       ELSE Out([base EXCEPT !.tag = tag, !.gw = <<fname>>, !.up = r.up,
                             !.session = Sp(env)],
                Here, lg.rows, token_cache)

\* Lines 79-87 of play (the same in play_song_radio and play_track): the
\* append, the second get_user_state and the response built from it.
Queued(base, st, rows, uri, kind) ==
    LET st1 == add_to_queue(st, OwnerKey, uri, kind, base.user)
        st2 == get_user_state(st1, OwnerKey)
        state == StateOf(st2, OwnerKey)
    IN Out([base EXCEPT !.tag = "queued", !.queue_length = Len(state.queue),
                        !.queue = state.queue],
           st2, rows, token_cache)

\* The body shared by play, play_song_radio and play_track.
Playback(ep, cred, action, uri, kind, fname, r, env) ==
    LET user == identify_user(cred, AIDAN_API_KEY)
        base == [BaseResp(ep, cred, user) EXCEPT !.arg = uri]
        lg == log_action(activity_logs, user, action, <<uri>>, env.store_ok)
    IN IF lg.raised THEN Fault(base, <<>>, <<>>, Here, lg.rows, token_cache)
       ELSE IF NotOwner(user) THEN Queued(base, Here, lg.rows, uri, kind)
       ELSE IF r.raised THEN Fault(base, <<fname>>, r.up, Here, lg.rows, token_cache)
       ELSE Out([base EXCEPT !.tag = r.tag, !.gw = <<fname>>, !.up = r.up,
                             !.session = Sp(env), !.recs = r.recs, !.started = r.started],
                Here, lg.rows, token_cache)

head_root_h == Out(BaseResp("HEAD /", None, None), Here, activity_logs, token_cache)

root_h(cred, env) ==
    LET user == identify_user(cred, AIDAN_API_KEY)
        base == BaseResp("/", cred, user)
        lg == log_action(activity_logs, user, "health_check", <<"root endpoint hit">>,
                         env.store_ok)
    IN IF lg.raised THEN Fault(base, <<>>, <<>>, Here, lg.rows, token_cache)
       ELSE Out([base EXCEPT !.tag = "MCP API is running"], Here, lg.rows, token_cache)

notify_h(cred, msg, post_ok, env) ==
    LET user == identify_user(cred, AIDAN_API_KEY)
        base == BaseResp("/notify", cred, user)
        lg == log_action(activity_logs, user, "notify", <<msg>>, env.store_ok)
        r == send_notification(PUSHOVER_SET, post_ok)
    IN IF lg.raised THEN Fault(base, <<>>, <<>>, Here, lg.rows, token_cache)
       ELSE IF r.raised
            THEN Fault(base, <<"send_notification">>, r.up, Here, lg.rows, token_cache)
       ELSE Out([base EXCEPT !.tag = "message_sent", !.gw = <<"send_notification">>,
                             !.up = r.up],
                Here, lg.rows, token_cache)

auth_start_h(cred) ==
    LET user == identify_user(cred, AIDAN_API_KEY)
        base == BaseResp("/auth/start", cred, user)
        r == get_auth_url
    IN IF NotOwner(user)
       THEN Out([base EXCEPT !.tag = "error: only Aidan can initiate auth"],
                Here, activity_logs, token_cache)
       ELSE Out([base EXCEPT !.tag = r.tag, !.gw = <<"get_auth_url">>, !.up = r.up],
                Here, activity_logs, token_cache)

auth_callback_h(cred, exchange_ok) ==
    LET user == identify_user(cred, AIDAN_API_KEY)
        base == BaseResp("/auth/callback", cred, user)
        r == handle_callback(exchange_ok)
    IN IF NotOwner(user)
       THEN Out([base EXCEPT !.status = "forbidden", !.tag = "forbidden"],
                Here, activity_logs, token_cache)
       ELSE IF r.raised
            THEN Fault(base, <<"handle_callback">>, r.up, Here, activity_logs, token_cache)
       ELSE Out([base EXCEPT !.tag = "authenticated", !.gw = <<"handle_callback">>,
                             !.up = r.up],
                Here, activity_logs, "valid")

current_song_h(cred, pb, env) ==
    LET user == identify_user(cred, AIDAN_API_KEY)
        base == [BaseResp("/song", cred, user) EXCEPT !.session = Sp(env)]
        r == get_current_song(Sp(env), pb)
        lg == log_action(activity_logs, user, "current_song", <<r.song, "-", r.artist>>,
                         env.store_ok)
        got == [base EXCEPT !.gw = <<"get_current_song">>, !.up = r.up,
                            !.song = r.song, !.artist = r.artist]
    IN IF r.raised
       THEN Fault(base, <<"get_current_song">>, r.up, Here, activity_logs, token_cache)
       ELSE IF lg.raised
            THEN Fault(base, <<"get_current_song">>, r.up, Here, lg.rows, token_cache)
       ELSE IF Truthy(r.song) /\ Truthy(r.artist)
            THEN Out([got EXCEPT !.tag = "song"],
                     IF user = Aidan
                     THEN set_online(set_last_played(Here, OwnerKey, r.song), OwnerKey, TRUE)
                     ELSE Here,
                     lg.rows, token_cache)
       ELSE Out([got EXCEPT !.tag = "No song currently playing"],
                Here, lg.rows, token_cache)

play_h(cred, playlist, env) ==
    Playback("/play", cred, "play_playlist", playlist, "playlist", "play_playlist",
             play_playlist(Sp(env), env.gw), env)

play_song_radio_h_track(cred, song, recs, env) ==
    Playback("/play_song_radio", cred, "play_song_radio", song, "track",
             "play_song_radio", play_song_radio(Sp(env), recs, env.gw), env)

play_song_radio_h(cred, song, recs, env) ==
    Playback("/play_song_radio", cred, "play_song_radio", song, "radio_seed",
             "play_song_radio", play_song_radio(Sp(env), recs, env.gw), env)

play_track_h(cred, track, env) ==
    Playback("/play_track", cred, "play_track", track, "track", "play_track",
             play_track(Sp(env), env.gw), env)

\* api.py calls spotify.next_track, a name tools/spotify.py does not define
\* (it defines play_next_track).
next_track_h(cred, env) ==
    LET r == play_next_track(Sp(env), env.gw)
    IN Delegated("/next", cred, "next_track", <<"">>, "next_track", r, r.tag, env)

resume_h(cred, env) ==
    LET r == resume_playback(Sp(env), env.gw)
    IN Delegated("/resume", cred, "resume_playback", <<"">>, "resume_playback", r, r.tag, env)

pause_h(cred, env) ==
    LET r == pause_playback(Sp(env), env.gw)
    IN Delegated("/pause", cred, "pause_playback", <<"">>, "pause_playback", r, r.tag, env)

previous_h(cred, env) ==
    LET r == previous_track(Sp(env), env.gw)
    IN Delegated("/previous", cred, "previous_track", <<"">>, "previous_track", r, r.tag, env)

volume_h(cred, level, env) ==
    LET r == set_volume(Sp(env), env.gw)
    IN Delegated("/volume", cred, "set_volume", <<level>>, "set_volume", r, r.tag, env)

search_h(cred, query, env) ==
    LET r == search_tracks(Sp(env), env.gw)
    IN Delegated("/search", cred, "search", <<query>>, "search_tracks", r,
                 IF r.tag = "None" THEN "tracks: []" ELSE "tracks: " \o r.tag, env)

recommend_h(cred, seeds, env) ==
    LET r == get_recommendations(Sp(env), env.gw)
    IN Delegated("/recommend", cred, "recommend", <<seeds>>, "get_recommendations", r,
                 "recommendations: " \o r.tag, env)

create_playlist_h_gated(cred, name, env) ==
    Playback("/create_playlist", cred, "create_playlist", name, "playlist",
             "create_playlist", create_playlist_gw(Sp(env), env.gw), env)

create_playlist_h(cred, name, env) ==
    LET r == create_playlist_gw(Sp(env), env.gw)
    IN Delegated("/create_playlist", cred, "create_playlist", <<name>>, "create_playlist", r,
                 IF r.tag = "None" THEN "error: failed to create playlist" ELSE r.tag, env)

add_to_playlist_h(cred, playlist_id, env) ==
    LET r == add_tracks_to_playlist(Sp(env), env.gw)
    IN Delegated("/add_to_playlist", cred, "add_to_playlist", <<playlist_id>>,
                 "add_tracks_to_playlist", r, r.tag, env)

me_h(cred, env) ==
    LET r == get_user_profile(Sp(env), env.gw)
    IN Delegated("/me", cred, "get_profile", <<"">>, "get_user_profile", r, r.tag, env)

playlists_h(cred, env) ==
    LET r == get_user_playlists(Sp(env), env.gw)
    IN Delegated("/playlists", cred, "list_playlists", <<"">>, "get_user_playlists", r,
                 "playlists: " \o r.tag, env)

playlist_tracks_h(cred, playlist_id, env) ==
    LET r == get_playlist_tracks(Sp(env), env.gw)
    IN Delegated("/playlist_tracks", cred, "playlist_tracks", <<playlist_id>>,
                 "get_playlist_tracks", r, "tracks: " \o r.tag, env)

\* The largest limit /logs accepts (Query(50, le=200)); no least value is set.
LogLimitCap == 200

\* "ORDER BY timestamp DESC LIMIT ?": the rows newest first (the timestamps
\* grow with the order of insertion); a negative LIMIT is no limit in sqlite.
RECURSIVE Reverse(_)
Reverse(s) == IF s = <<>> THEN <<>> ELSE Append(Reverse(Tail(s)), Head(s))

SelectRecent(rows, limit) ==
    IF limit < 0 \/ limit > Len(rows) THEN Reverse(rows)
    ELSE SubSeq(Reverse(rows), 1, limit)

fetch_logs_h(cred, limit, read_ok) ==
    LET user == identify_user(cred, AIDAN_API_KEY)
        base == [BaseResp("/logs", cred, user) EXCEPT !.limit = limit]
    IN IF NotOwner(user)
       THEN Out([base EXCEPT !.status = "forbidden", !.tag = "forbidden"],
                Here, activity_logs, token_cache)
       ELSE IF ~read_ok
            THEN Out([base EXCEPT !.tag = "error: store", !.log_read = TRUE],
                     Here, activity_logs, token_cache)
       ELSE Out([base EXCEPT !.tag = "logs", !.log_read = TRUE,
                             !.logs = SelectRecent(activity_logs, limit)],
                Here, activity_logs, token_cache)

\* ---------------------------------------------------------------- requests handled one at a time

OwnerSecret == <<"k", "e", "y">>

GuestCred == <<"a", "b", "c", "1", "2", "3", "x", "y", "z">>

\* The x-api-key header of a request: absent, the owner secret with
\* surrounding blanks, or a guest's key.
ReqCreds == {None, <<" ">> \o OwnerSecret \o <<" ">>, GuestCred}

Uris == {"uri1", "uri2"}

SongName == <<"S", "o", "n", "g">>

ArtistName == <<"A", "r", "t">>

\* What sp.current_playback() can do: raise, report nothing, report a track
\* with an artist, report a track whose artist list is empty.
Playbacks == {<<"raise">>, None, <<SongName, <<ArtistName>>>>, <<SongName, <<>>>>}

\* What the environment does during one request. gw: the refresh of the
\* cached token fails ("refresh_fail"), or the upstream call succeeds ("ok"),
\* raises ("raise") or succeeds with nothing to return ("empty"); store_ok:
\* the sqlite store takes the INSERT.
Envs == [gw : {"ok", "raise", "empty", "refresh_fail"}, store_ok : BOOLEAN]

\* The environments that differ for a handler that makes no gateway call, for
\* one whose upstream call returns nothing of interest, and for one that
\* takes what the upstream call does from another input.
LogEnvs == {e \in Envs : e.gw = "ok"}

CallEnvs == {e \in Envs : e.gw # "empty"}

SessionEnvs == {e \in Envs : e.gw \in {"ok", "refresh_fail"}}

\* Values of limit that /logs accepts.
Limits == {-1, 1, 2}

\* The tracks a recommendation call returns, by URI.
RecUris == <<"rec1", "rec2">>

\* What sp.recommendations can do: raise, return no track, return tracks.
RecOutcomes == {RecRaise, <<>>, RecUris}

\* What is compared between a request and its twin: the response and every
\* effect other than the activity log.
Twin(o) == [resp |-> o.resp, st |-> o.st, cache |-> o.cache]

\* The environment with the other outcome of the log store.
OtherStore(env) == [env EXCEPT !.store_ok = ~env.store_ok]

\* The value of last before any request is handled.
NoRequest == BaseResp("none", None, None)

Init ==
    /\ AIDAN_API_KEY \in {OwnerSecret, <<>>}
    /\ PUSHOVER_SET \in BOOLEAN
    /\ token_cache \in {"none", "valid"}
    /\ STATE_MAP = [k \in Keys |-> 0]
    /\ heap = <<>>
    /\ activity_logs = <<>>
    /\ budget = MaxRequests
    /\ arrivals = <<>>
    /\ last = NoRequest
    /\ twin = Twin(Out(NoRequest, Store(STATE_MAP, heap), <<>>, token_cache))
    /\ thr = <<>>

\* The mutating playback endpoints and the kind of resource each names.
PlaybackEps == {"/play", "/play_track", "/play_song_radio"}

KindOf(ep) ==
    IF ep = "/play" THEN "playlist" ELSE IF ep = "/play_track" THEN "track" ELSE "radio_seed"

\* One request handled from start to end: o is what the handler does, t what
\* it does when the log store behaves the other way.
Handle(o, t) ==
    /\ budget > 0
    /\ \E done \in {o} :
          /\ last' = done.resp
          /\ twin' = Twin(t)
          /\ STATE_MAP' = done.st.S
          /\ heap' = done.st.H
          /\ activity_logs' = done.rows
          /\ token_cache' = done.cache
          /\ arrivals' = IF done.resp.ep \in PlaybackEps /\ done.resp.user # Aidan
                         THEN Append(arrivals,
                                     QueueRecord(done.resp.arg, KindOf(done.resp.ep),
                                                 done.resp.user))
                         ELSE arrivals
    /\ budget' = budget - 1
    /\ UNCHANGED <<AIDAN_API_KEY, PUSHOVER_SET, thr>>

head_root ==
    LET o == head_root_h
        t == head_root_h
    IN Handle(o, t)

root(cred, env) ==
    LET o == root_h(cred, env)
        t == root_h(cred, OtherStore(env))
    IN Handle(o, t)

notify(cred, post_ok, env) ==
    LET o == notify_h(cred, "hello world", post_ok, env)
        t == notify_h(cred, "hello world", post_ok, OtherStore(env))
    IN Handle(o, t)

auth_start(cred) ==
    LET o == auth_start_h(cred)
        t == auth_start_h(cred)
    IN Handle(o, t)

auth_callback(cred, exchange_ok) ==
    LET o == auth_callback_h(cred, exchange_ok)
        t == auth_callback_h(cred, exchange_ok)
    IN Handle(o, t)

current_song(cred, pb, env) ==
    LET o == current_song_h(cred, pb, env)
        t == current_song_h(cred, pb, OtherStore(env))
    IN Handle(o, t)

play(cred, uri, env) ==
    LET o == play_h(cred, uri, env)
        t == play_h(cred, uri, OtherStore(env))
    IN Handle(o, t)

play_song_radio_ep(cred, uri, recs, env) ==
    LET o == play_song_radio_h(cred, uri, recs, env)
        t == play_song_radio_h(cred, uri, recs, OtherStore(env))
    IN Handle(o, t)

next_track(cred, env) ==
    LET o == next_track_h(cred, env)
        t == next_track_h(cred, OtherStore(env))
    IN Handle(o, t)

play_track_ep(cred, uri, env) ==
    LET o == play_track_h(cred, uri, env)
        t == play_track_h(cred, uri, OtherStore(env))
    IN Handle(o, t)

resume(cred, env) ==
    LET o == resume_h(cred, env)
        t == resume_h(cred, OtherStore(env))
    IN Handle(o, t)

search(cred, env) ==
    LET o == search_h(cred, "q", env)
        t == search_h(cred, "q", OtherStore(env))
    IN Handle(o, t)

recommend(cred, env) ==
    LET o == recommend_h(cred, "seeds", env)
        t == recommend_h(cred, "seeds", OtherStore(env))
    IN Handle(o, t)

create_playlist(cred, env) ==
    LET o == create_playlist_h(cred, "name", env)
        t == create_playlist_h(cred, "name", OtherStore(env))
    IN Handle(o, t)

add_to_playlist(cred, env) ==
    LET o == add_to_playlist_h(cred, "pl", env)
        t == add_to_playlist_h(cred, "pl", OtherStore(env))
    IN Handle(o, t)

pause(cred, env) ==
    LET o == pause_h(cred, env)
        t == pause_h(cred, OtherStore(env))
    IN Handle(o, t)

previous(cred, env) ==
    LET o == previous_h(cred, env)
        t == previous_h(cred, OtherStore(env))
    IN Handle(o, t)

volume(cred, env) ==
    LET o == volume_h(cred, "50", env)
        t == volume_h(cred, "50", OtherStore(env))
    IN Handle(o, t)

me(cred, env) ==
    LET o == me_h(cred, env)
        t == me_h(cred, OtherStore(env))
    IN Handle(o, t)

playlists(cred, env) ==
    LET o == playlists_h(cred, env)
        t == playlists_h(cred, OtherStore(env))
    IN Handle(o, t)

playlist_tracks(cred, env) ==
    LET o == playlist_tracks_h(cred, "pl", env)
        t == playlist_tracks_h(cred, "pl", OtherStore(env))
    IN Handle(o, t)

fetch_logs(cred, limit, read_ok) ==
    LET o == fetch_logs_h(cred, limit, read_ok)
        t == fetch_logs_h(cred, limit, read_ok)
    IN Handle(o, t)

Next ==
    \/ head_root
    \/ \E cred \in ReqCreds, env \in LogEnvs : root(cred, env)
    \/ \E cred \in ReqCreds, env \in LogEnvs, post_ok \in BOOLEAN : notify(cred, post_ok, env)
    \/ \E cred \in ReqCreds : auth_start(cred)
    \/ \E cred \in ReqCreds, exchange_ok \in BOOLEAN : auth_callback(cred, exchange_ok)
    \/ \E cred \in ReqCreds, env \in SessionEnvs, pb \in Playbacks : current_song(cred, pb, env)
    \/ \E cred \in ReqCreds, env \in CallEnvs, uri \in Uris : play(cred, uri, env)
    \/ \E cred \in ReqCreds, env \in CallEnvs, uri \in Uris, recs \in RecOutcomes :
          play_song_radio_ep(cred, uri, recs, env)
    \/ \E cred \in ReqCreds, env \in CallEnvs : next_track(cred, env)
    \/ \E cred \in ReqCreds, env \in CallEnvs, uri \in Uris : play_track_ep(cred, uri, env)
    \/ \E cred \in ReqCreds, env \in CallEnvs : resume(cred, env)
    \/ \E cred \in ReqCreds, env \in Envs : search(cred, env)
    \/ \E cred \in ReqCreds, env \in Envs : recommend(cred, env)
    \/ \E cred \in ReqCreds, env \in Envs : create_playlist(cred, env)
    \/ \E cred \in ReqCreds, env \in CallEnvs : add_to_playlist(cred, env)
    \/ \E cred \in ReqCreds, env \in CallEnvs : pause(cred, env)
    \/ \E cred \in ReqCreds, env \in CallEnvs : previous(cred, env)
    \/ \E cred \in ReqCreds, env \in CallEnvs : volume(cred, env)
    \/ \E cred \in ReqCreds, env \in Envs : me(cred, env)
    \/ \E cred \in ReqCreds, env \in Envs : playlists(cred, env)
    \/ \E cred \in ReqCreds, env \in Envs : playlist_tracks(cred, env)
    \/ \E cred \in ReqCreds, limit \in Limits, read_ok \in BOOLEAN :
          fetch_logs(cred, limit, read_ok)

Spec == Init /\ [][Next]_vars

\* ---------------------------------------------------------------- the playback endpoints alone

\* A deployment with the owner secret set; the notification credentials play
\* no part in the playback endpoints.
InitPlay ==
    /\ AIDAN_API_KEY = OwnerSecret
    /\ PUSHOVER_SET = TRUE
    /\ token_cache \in {"none", "valid"}
    /\ STATE_MAP = [k \in Keys |-> 0]
    /\ heap = <<>>
    /\ activity_logs = <<>>
    /\ budget = MaxPlay
    /\ arrivals = <<>>
    /\ last = NoRequest
    /\ twin = Twin(Out(NoRequest, Store(STATE_MAP, heap), <<>>, token_cache))
    /\ thr = <<>>

NextPlay ==
    \/ \E cred \in ReqCreds, env \in SessionEnvs, pb \in Playbacks : current_song(cred, pb, env)
    \/ \E cred \in ReqCreds, env \in CallEnvs, uri \in Uris : play(cred, uri, env)
    \/ \E cred \in ReqCreds, env \in CallEnvs, uri \in Uris, recs \in RecOutcomes :
          play_song_radio_ep(cred, uri, recs, env)
    \/ \E cred \in ReqCreds, env \in CallEnvs, uri \in Uris : play_track_ep(cred, uri, env)

SpecPlay == InitPlay /\ [][NextPlay]_vars

\* The gateway function each mutating playback endpoint delegates to.
GwFun(ep) ==
    IF ep = "/play" THEN "play_playlist"
    ELSE IF ep = "/play_track" THEN "play_track" ELSE "play_song_radio"

\* A request was handled in this step.
Handled == budget' = budget - 1

\* C1: a mutating playback request of a non-owner (labelled guest or
\* anonymous) invokes no gateway function and no upstream call, returns a
\* value, and reports as queue_length the number of guest mutating playback
\* requests handled so far, itself included; the owner's queue holds exactly
\* one record per such request and none besides.
C1_GuestQueuedOnce ==
    /\ Len(OwnerQueue) = Len(arrivals)
    /\ (last.ep \in PlaybackEps /\ last.user # Aidan) =>
          /\ last.status = "ok"
          /\ last.gw = <<>>
          /\ last.up = <<>>
          /\ last.queue_length = Len(arrivals)

C1_Witness ==
    last.ep = "/play_track" /\ last.user = Anonymous /\ last.queue_length = 2

\* C2: a mutating playback request of the owner invokes the gateway function
\* of its endpoint exactly once and leaves the owner session state (the queue
\* with it) as it was, whatever the gateway call does.
C2_OwnerDelegates ==
    [][(Handled /\ last'.ep \in PlaybackEps /\ last'.user = Aidan) =>
          /\ last'.gw = <<GwFun(last'.ep)>>
          /\ STATE_MAP' = STATE_MAP
          /\ heap' = heap]_vars

C2_Witness ==
    /\ last.ep = "/play_song_radio" /\ last.user = Aidan
    /\ last.tag = UpstreamError
    /\ Len(OwnerQueue) = 1

\* C4: the queue returned to a guest mutating playback request lists the
\* records of all guest mutating playback requests handled so far, in arrival
\* order, oldest first.
C4_Fifo ==
    (last.ep \in PlaybackEps /\ last.user # Aidan) => last.queue = arrivals

C4_Witness ==
    /\ last.ep \in PlaybackEps /\ last.user # Aidan
    /\ Len(last.queue) = 2
    /\ last.queue[1].requested_by # last.queue[2].requested_by

\* C5: /song by the owner, when the gateway reports a playing track, sets
\* last_played to that track and online to true; /song by a guest leaves the
\* owner session state as it was.
C5_SongPresence ==
    [][(Handled /\ last'.ep = "/song" /\ last'.status = "ok") =>
          /\ (last'.user = Aidan /\ Truthy(last'.song)) =>
                /\ HasKey(STATE_MAP', OwnerKey)
                /\ heap'[STATE_MAP'[OwnerKey]].last_played = <<"track", last'.song>>
                /\ heap'[STATE_MAP'[OwnerKey]].online = TRUE
          /\ (last'.user # Aidan) => (STATE_MAP' = STATE_MAP /\ heap' = heap)]_vars

\* ---------------------------------------------------------------- claims on every endpoint

\* The endpoints reserved to the owner.
OwnerOnlyEps == {"/auth/start", "/auth/callback", "/logs"}

\* The credential is absent or does not match the configured owner secret.
NoOwnerCredential(cred) ==
    \/ ~Truthy(cred)
    \/ ~Truthy(AIDAN_API_KEY)
    \/ strip(cred) # strip(AIDAN_API_KEY)

\* A permission error: HTTP 403, or the error body /auth/start returns.
PermissionError(resp) ==
    \/ resp.status = "forbidden"
    \/ resp.status = "ok" /\ resp.tag = "error: only Aidan can initiate auth"

\* C6: an owner-only endpoint called with no credential or a credential that
\* does not match the owner secret answers with a permission error, invokes no
\* gateway function, reads no log, and leaves the owner session state, the
\* token cache and the activity log as they were.
C6_OwnerOnlyRejects ==
    [][(Handled /\ last'.ep \in OwnerOnlyEps /\ NoOwnerCredential(last'.cred)) =>
          /\ PermissionError(last')
          /\ last'.gw = <<>>
          /\ last'.up = <<>>
          /\ last'.log_read = FALSE
          /\ UNCHANGED <<STATE_MAP, heap, token_cache, activity_logs>>]_vars

C6_Witness ==
    last.ep = "/auth/callback" /\ last.cred = GuestCred /\ last.status = "forbidden"

\* C8: for every endpoint, identity and environment, the request handled
\* during an outage of the activity-log store returns the same response (value
\* and status) and has the same effects on the owner session state and the
\* token cache as the same request handled with the store up.
C8_LogFailureHarmless ==
    twin = [resp |-> last, st |-> Here, cache |-> token_cache]

\* A guest's /play handled while the store was out: no row was written, and
\* the request was queued all the same.
C8_Witness ==
    /\ last.ep = "/play" /\ last.user # Aidan
    /\ last.tag = "queued"
    /\ activity_logs = <<>>

\* C9: every request ends with a returned value or a permission signal, never
\* with an exception leaving the handler.
C9_NoUnhandledFault == last.status # "fault"

\* The gateway functions that start with get_spotify_client.
SessionFunctions == SpotifyFunctions \ {"get_spotify_client", "get_auth_url", "handle_callback"}

\* C10: a request that delegates to the gateway while there is no valid
\* upstream session is answered with the not-authenticated condition, and no
\* upstream call (re-authentication included) is made.
C10_NotAuthenticatedSurfaced ==
    (/\ last.status = "ok"
     /\ last.gw # <<>>
     /\ last.gw[1] \in SessionFunctions
     /\ ~last.session) =>
        /\ last.tag = NotAuthenticated
        /\ last.up = <<>>

\* ---------------------------------------------------------------- identify_user on its own

IdChars == {" ", "k"}

\* The strings over IdChars of length n, and of length at most n.
RECURSIVE StringsOfLen(_)
StringsOfLen(n) ==
    IF n = 0 THEN {<<>>}
    ELSE {Append(s, c) : s \in StringsOfLen(n - 1), c \in IdChars}

RECURSIVE StringsUpTo(_)
StringsUpTo(n) == IF n = 0 THEN {<<>>} ELSE StringsOfLen(n) \cup StringsUpTo(n - 1)

\* The values AIDAN_API_KEY can take (unset, blank, padded or plain) and the
\* credentials a request can carry (no header, the same strings, a long key).
IdSecrets == StringsUpTo(MaxKeyLen)

IdCreds == StringsUpTo(MaxKeyLen) \cup {None, GuestCred}

InitIdentity ==
    /\ AIDAN_API_KEY \in IdSecrets
    /\ PUSHOVER_SET = TRUE
    /\ token_cache = "none"
    /\ STATE_MAP = [k \in Keys |-> 0]
    /\ heap = <<>>
    /\ activity_logs = <<>>
    /\ budget = MaxResolve
    /\ arrivals = <<>>
    /\ last = NoRequest
    /\ twin = Twin(Out(NoRequest, Store(STATE_MAP, heap), <<>>, token_cache))
    /\ thr = <<>>

\* One call of identify_user with the configured secret.
resolve(cred) ==
    /\ budget > 0
    /\ budget' = budget - 1
    /\ last' = BaseResp("identify_user", cred, identify_user(cred, AIDAN_API_KEY))
    /\ UNCHANGED <<AIDAN_API_KEY, PUSHOVER_SET, token_cache, STATE_MAP, heap,
                   activity_logs, arrivals, twin, thr>>

NextIdentity == \E cred \in IdCreds : resolve(cred)

SpecIdentity == InitIdentity /\ [][NextIdentity]_vars

\* C7: with a configured (non-blank) owner secret, a credential that equals
\* the secret once both are trimmed of leading and trailing blanks is
\* classified as the owner; and within one run the same credential gets the
\* same label every time it is resolved.
C7_TrimThenCompare ==
    /\ []((/\ last.ep = "identify_user"
           /\ strip(AIDAN_API_KEY) # <<>>
           /\ last.cred # None
           /\ strip(last.cred) = strip(AIDAN_API_KEY)) => last.user = Aidan)
    /\ [][(/\ last.ep = "identify_user"
           /\ last'.ep = "identify_user"
           /\ last'.cred = last.cred) => last'.user = last.user]_vars

\* A credential that matches the secret only once both are trimmed.
C7_Witness ==
    /\ last.ep = "identify_user"
    /\ last.cred # None
    /\ last.cred # AIDAN_API_KEY
    /\ strip(AIDAN_API_KEY) # <<>>
    /\ strip(last.cred) = strip(AIDAN_API_KEY)
    /\ last.user = Aidan

\* ---------------------------------------------------------------- concurrent playback requests

\* The handlers are plain functions, which the framework runs on a pool of
\* threads: the statements of two requests interleave wherever the
\* interpreter switches threads. Each thread handles one mutating playback
\* request; the steps are the points at which the shared objects (STATE, the
\* state dictionaries, the log table) are read or written.

Threads == 1 .. NumThreads

\* The resource each request names, one per thread, so that a record in the
\* queue tells which request appended it.
ThreadUris == <<"uri1", "uri2", "uri3", "uri4">>

ConcCreds == ReqCreds

Idle ==
    [pc |-> "idle", ep |-> "none", cred |-> None, user |-> None, uri |-> "",
     ref |-> 0, status |-> "none", tag |-> "", gw |-> <<>>,
     queue_length |-> 0, queue |-> <<>>]

InitConc ==
    /\ AIDAN_API_KEY = OwnerSecret
    /\ PUSHOVER_SET = TRUE
    /\ token_cache \in {"none", "valid"}
    /\ STATE_MAP = [k \in Keys |-> 0]
    /\ heap = <<>>
    /\ activity_logs = <<>>
    /\ budget = 0
    /\ arrivals = <<>>
    /\ last = NoRequest
    /\ twin = Twin(Out(NoRequest, Store(STATE_MAP, heap), <<>>, token_cache))
    /\ thr = [t \in Threads |-> Idle]

Shared == <<STATE_MAP, heap, activity_logs>>

Fixed == <<AIDAN_API_KEY, PUSHOVER_SET, token_cache, budget, arrivals, last, twin>>

\* The request arrives: identify_user.
c_begin(t, ep, cred) ==
    /\ thr[t].pc = "idle"
    /\ thr' = [thr EXCEPT ![t] = [Idle EXCEPT !.pc = "log", !.ep = ep, !.cred = cred,
                                      !.user = identify_user(cred, AIDAN_API_KEY),
                                      !.uri = ThreadUris[t]]]
    /\ UNCHANGED <<Shared, Fixed>>

\* log_action (the INSERT runs under _DB_LOCK), then the owner test.
c_log(t, store_ok) ==
    /\ thr[t].pc = "log"
    /\ activity_logs' = log_action(activity_logs, thr[t].user, GwFun(thr[t].ep),
                                   <<thr[t].uri>>, store_ok).rows
    /\ thr' = [thr EXCEPT ![t].pc = IF NotOwner(thr[t].user) THEN "atq_check" ELSE "gateway"]
    /\ UNCHANGED <<STATE_MAP, heap, Fixed>>

\* The owner's branch: return spotify.<function>(uri).
c_gateway(t, env, recs) ==
    /\ thr[t].pc = "gateway"
    /\ LET r == IF thr[t].ep = "/play" THEN play_playlist(Sp(env), env.gw)
                ELSE IF thr[t].ep = "/play_track" THEN play_track(Sp(env), env.gw)
                ELSE play_song_radio(Sp(env), recs, env.gw)
       IN thr' = [thr EXCEPT ![t].pc = "done", ![t].status = "ok", ![t].tag = r.tag,
                             ![t].gw = <<GwFun(thr[t].ep)>>]
    /\ UNCHANGED <<Shared, Fixed>>

\* get_user_state, "if user not in STATE" (in add_to_queue and in the handler).
c_check(t) ==
    /\ thr[t].pc \in {"atq_check", "gs_check"}
    /\ thr' = [thr EXCEPT ![t].pc =
                  IF HasKey(STATE_MAP, OwnerKey)
                  THEN (IF thr[t].pc = "atq_check" THEN "atq_return" ELSE "gs_return")
                  ELSE (IF thr[t].pc = "atq_check" THEN "atq_create" ELSE "gs_create")]
    /\ UNCHANGED <<Shared, Fixed>>

\* get_user_state, "STATE[user] = {...}": a new dictionary replaces the entry.
c_create(t) ==
    /\ thr[t].pc \in {"atq_create", "gs_create"}
    /\ heap' = Append(heap, DefaultState)
    /\ STATE_MAP' = [STATE_MAP EXCEPT ![OwnerKey] = Len(heap) + 1]
    /\ thr' = [thr EXCEPT ![t].pc = IF thr[t].pc = "atq_create" THEN "atq_return"
                                    ELSE "gs_return"]
    /\ UNCHANGED <<activity_logs, Fixed>>

\* get_user_state, "return STATE[user]".
c_return(t) ==
    /\ thr[t].pc \in {"atq_return", "gs_return"}
    /\ thr' = [thr EXCEPT ![t].ref = STATE_MAP[OwnerKey],
                          ![t].pc = IF thr[t].pc = "atq_return" THEN "atq_append" ELSE "len"]
    /\ UNCHANGED <<Shared, Fixed>>

\* add_to_queue, st["queue"].append(record).
c_append(t) ==
    /\ thr[t].pc = "atq_append"
    /\ heap' = [heap EXCEPT ![thr[t].ref].queue =
                   Append(@, QueueRecord(thr[t].uri, KindOf(thr[t].ep), thr[t].user))]
    /\ thr' = [thr EXCEPT ![t].pc = "gs_check"]
    /\ UNCHANGED <<STATE_MAP, activity_logs, Fixed>>

\* The handler builds its result: len(state["queue"]) is taken now, and the
\* list itself is put in the result by reference.
c_len(t) ==
    /\ thr[t].pc = "len"
    /\ thr' = [thr EXCEPT ![t].queue_length = Len(heap[thr[t].ref].queue),
                          ![t].pc = "serialize"]
    /\ UNCHANGED <<Shared, Fixed>>

\* The framework encodes the returned value: the list is read now.
c_serialize(t) ==
    /\ thr[t].pc = "serialize"
    /\ thr' = [thr EXCEPT ![t].queue = heap[thr[t].ref].queue, ![t].status = "ok",
                          ![t].tag = "queued", ![t].pc = "done"]
    /\ UNCHANGED <<Shared, Fixed>>

NextConc ==
    \/ \E t \in Threads, ep \in PlaybackEps, cred \in ConcCreds : c_begin(t, ep, cred)
    \/ \E t \in Threads, store_ok \in BOOLEAN : c_log(t, store_ok)
    \/ \E t \in Threads, env \in CallEnvs, recs \in RecOutcomes : c_gateway(t, env, recs)
    \/ \E t \in Threads : c_check(t)
    \/ \E t \in Threads : c_create(t)
    \/ \E t \in Threads : c_return(t)
    \/ \E t \in Threads : c_append(t)
    \/ \E t \in Threads : c_len(t)
    \/ \E t \in Threads : c_serialize(t)

SpecConc == InitConc /\ [][NextConc]_vars

\* The places of thread t's own record in the owner's queue.
OwnPositions(t) == {i \in 1 .. Len(OwnerQueue) : OwnerQueue[i].uri = thr[t].uri}

\* C3: the queue_length a guest's request is told is the 1-based position of
\* that request's own record in the owner's queue.
C3_LengthIsOwnPosition ==
    \A t \in Threads :
       (thr[t].pc \in {"serialize", "done"} /\ thr[t].user # Aidan) =>
          thr[t].queue_length \in OwnPositions(t)

\* ---------------------------------------------------------------- transport, playlist and log claims

\* The transport controls and the gateway function each stands for.
TransportEps == {"/next", "/previous", "/resume", "/pause", "/volume"}

TransportFun(ep) ==
    IF ep = "/next" THEN "play_next_track"
    ELSE IF ep = "/previous" THEN "previous_track"
    ELSE IF ep = "/resume" THEN "resume_playback"
    ELSE IF ep = "/pause" THEN "pause_playback"
    ELSE "set_volume"

\* C11: a transport control (/next, /previous, /resume, /pause, /volume),
\* for every identity, invokes the gateway function it stands for and leaves
\* the owner session state (the queue with it) as it was.
C11_TransportDelegates ==
    [][(Handled /\ last'.ep \in TransportEps) =>
          /\ last'.gw = <<TransportFun(last'.ep)>>
          /\ STATE_MAP' = STATE_MAP
          /\ heap' = heap]_vars

\* s is an initial part of t.
IsPrefix(s, t) == Len(s) <= Len(t) /\ SubSeq(t, 1, Len(s)) = s

\* C12: every handled request, on every endpoint and for every identity,
\* adds exactly one row to the activity log and leaves the rows written
\* earlier as they were.
C12_OneRowPerRequest ==
    [][Handled =>
          /\ Len(activity_logs') = Len(activity_logs) + 1
          /\ IsPrefix(activity_logs, activity_logs')]_vars

\* The playlist-mutating endpoints and the gateway function each delegates to.
PlaylistEps == {"/create_playlist", "/add_to_playlist"}

PlaylistFun(ep) ==
    IF ep = "/create_playlist" THEN "create_playlist" ELSE "add_tracks_to_playlist"

\* C15: /create_playlist and /add_to_playlist, for every identity (guests
\* included), invoke their gateway function directly and leave the owner
\* session state (the queue with it) as it was.
C15_PlaylistUngated ==
    [][(Handled /\ last'.ep \in PlaylistEps) =>
          /\ last'.status = "ok"
          /\ last'.gw = <<PlaylistFun(last'.ep)>>
          /\ STATE_MAP' = STATE_MAP
          /\ heap' = heap]_vars

\* A guest's /create_playlist reached the upstream service and made a playlist.
C15_Witness ==
    /\ last.ep = "/create_playlist"
    /\ last.user = UserLabel(Prefix(GuestCred, LabelPrefixLen))
    /\ last.tag = "playlist"
    /\ last.up = <<"current_user", "user_playlist_create">>
    /\ OwnerQueue = <<>>

\* ---------------------------------------------------------------- reading the activity log

MaxLogs == 3

\* A deployment with the owner secret set, handling requests that write the
\* log (/) and requests that read it (/logs).
InitLogs ==
    /\ AIDAN_API_KEY = OwnerSecret
    /\ PUSHOVER_SET = TRUE
    /\ token_cache = "none"
    /\ STATE_MAP = [k \in Keys |-> 0]
    /\ heap = <<>>
    /\ activity_logs = <<>>
    /\ budget = MaxLogs
    /\ arrivals = <<>>
    /\ last = NoRequest
    /\ twin = Twin(Out(NoRequest, Store(STATE_MAP, heap), <<>>, token_cache))
    /\ thr = <<>>

NextLogs ==
    \/ \E cred \in ReqCreds, env \in LogEnvs : root(cred, env)
    \/ \E cred \in ReqCreds, env \in CallEnvs : pause(cred, env)
    \/ \E cred \in ReqCreds, limit \in Limits, read_ok \in BOOLEAN :
          fetch_logs(cred, limit, read_ok)

SpecLogs == InitLogs /\ [][NextLogs]_vars

\* The most entries a request with this limit may be given: min(limit, cap),
\* and none when that is negative (a count is never below zero).
AtMost(limit) ==
    IF limit < 0 THEN 0 ELSE IF limit < LogLimitCap THEN limit ELSE LogLimitCap

\* C13: /logs by the owner returns the entries newest first, and at most
\* min(limit, 200) of them for every limit the endpoint accepts.
C13_LogsCapped ==
    (last.ep = "/logs" /\ last.user = Aidan /\ last.tag = "logs") =>
        /\ Len(last.logs) <= AtMost(last.limit)
        /\ Len(last.logs) <= Len(activity_logs)
        /\ \A i \in 1 .. Len(last.logs) :
              last.logs[i] = activity_logs[Len(activity_logs) + 1 - i]

\* ---------------------------------------------------------------- the queued record

\* The display label of a guest: the first 6 characters of the credential in
\* "User(..)", or the anonymous label when no credential was sent.
GuestLabel(cred) ==
    IF cred = None \/ cred = <<>> THEN Anonymous
    ELSE <<"U", "s", "e", "r", "(">>
         \o [i \in 1 .. (IF Len(cred) < 6 THEN Len(cred) ELSE 6) |-> cred[i]]
         \o <<")">>

\* C14: the record appended for a guest mutating playback request carries the
\* URI the request names, the kind of its endpoint (playlist for /play, track
\* for /play_track, radio_seed for /play_song_radio) and the display label of
\* the requesting guest.
C14_RecordCarries ==
    (last.ep \in PlaybackEps /\ last.user # Aidan /\ last.tag = "queued") =>
        /\ OwnerQueue # <<>>
        /\ LET rec == OwnerQueue[Len(OwnerQueue)]
           IN /\ rec.uri = last.arg
              /\ rec.name = (CASE last.ep = "/play" -> "playlist"
                               [] last.ep = "/play_track" -> "track"
                               [] last.ep = "/play_song_radio" -> "radio_seed")
              /\ rec.requested_by = GuestLabel(last.cred)

C14_Witness ==
    /\ last.ep = "/play_song_radio" /\ last.cred = GuestCred /\ last.tag = "queued"
    /\ OwnerQueue[Len(OwnerQueue)] =
          [uri |-> "uri2", name |-> "radio_seed",
           requested_by |-> <<"U", "s", "e", "r", "(", "a", "b", "c", "1", "2", "3", ")">>]

\* ---------------------------------------------------------------- configuration at startup

\* config.validate() is the only check of the configuration, and nothing
\* calls it: api.py starts with whatever the environment holds (Init), and
\* send_notification tests the notification credentials on each call.

\* C16: a request reaches the notification subsystem only in a deployment
\* whose notification credentials were present at startup: absent
\* credentials stop the subsystem before any request, so no request is the
\* first to meet the configuration error.
C16_MissingConfigStopsStartup == (last.ep = "/notify") => PUSHOVER_SET

\* ---------------------------------------------------------------- claims on concurrent requests

\* Every request that arrived has been answered.
Quiescent == \A t \in Threads : thr[t].pc \in {"idle", "done"}

\* C17: once all concurrent guest mutating playback requests have completed,
\* the owner's queue holds exactly one record for each of them, also when they
\* were the first to refer to the owner's state.
C17_NoLostAppend ==
    Quiescent =>
       \A t \in Threads :
          (thr[t].pc = "done" /\ thr[t].user # Aidan) => Cardinality(OwnPositions(t)) = 1

\* The activity-log row of thread t's request has been written.
RowWritten(t) ==
    \E i \in 1 .. Len(activity_logs) : activity_logs[i].details = <<thr[t].uri>>

\* Thread t's primary effect has happened: the append (guest) or the gateway
\* call (owner).
EffectDone(t) ==
    thr[t].pc \in {"gs_check", "gs_create", "gs_return", "len", "serialize", "done"}

\* C18: in a mutating playback request the primary effect comes before the
\* log write: whenever the row of a request is in the activity log, its
\* queue append (guest) or gateway call (owner) has already happened.
C18_EffectBeforeLog ==
    \A t \in Threads : (thr[t].pc # "idle" /\ RowWritten(t)) => EffectDone(t)

\* ---------------------------------------------------------------- every endpoint, several requests

MaxAny == 2

\* The identities of a request: the owner and an anonymous guest.
AnyCreds == {None, OwnerSecret}

\* The environment in which every call succeeds.
OkEnv == [gw |-> "ok", store_ok |-> TRUE]

InitAny ==
    /\ AIDAN_API_KEY = OwnerSecret
    /\ PUSHOVER_SET = TRUE
    /\ token_cache = "valid"
    /\ STATE_MAP = [k \in Keys |-> 0]
    /\ heap = <<>>
    /\ activity_logs = <<>>
    /\ budget = MaxAny
    /\ arrivals = <<>>
    /\ last = NoRequest
    /\ twin = Twin(Out(NoRequest, Store(STATE_MAP, heap), <<>>, token_cache))
    /\ thr = <<>>

NextAny ==
    \/ head_root
    \/ \E cred \in AnyCreds : root(cred, OkEnv)
    \/ \E cred \in AnyCreds : notify(cred, TRUE, OkEnv)
    \/ \E cred \in AnyCreds : auth_start(cred)
    \/ \E cred \in AnyCreds : auth_callback(cred, TRUE)
    \/ \E cred \in AnyCreds, pb \in Playbacks \ {<<"raise">>} : current_song(cred, pb, OkEnv)
    \/ \E cred \in AnyCreds, uri \in Uris : play(cred, uri, OkEnv)
    \/ \E cred \in AnyCreds, uri \in Uris : play_song_radio_ep(cred, uri, RecUris, OkEnv)
    \/ \E cred \in AnyCreds : next_track(cred, OkEnv)
    \/ \E cred \in AnyCreds, uri \in Uris : play_track_ep(cred, uri, OkEnv)
    \/ \E cred \in AnyCreds : resume(cred, OkEnv)
    \/ \E cred \in AnyCreds : search(cred, OkEnv)
    \/ \E cred \in AnyCreds : recommend(cred, OkEnv)
    \/ \E cred \in AnyCreds : create_playlist(cred, OkEnv)
    \/ \E cred \in AnyCreds : add_to_playlist(cred, OkEnv)
    \/ \E cred \in AnyCreds : pause(cred, OkEnv)
    \/ \E cred \in AnyCreds : previous(cred, OkEnv)
    \/ \E cred \in AnyCreds : volume(cred, OkEnv)
    \/ \E cred \in AnyCreds : me(cred, OkEnv)
    \/ \E cred \in AnyCreds : playlists(cred, OkEnv)
    \/ \E cred \in AnyCreds : playlist_tracks(cred, OkEnv)
    \/ \E cred \in AnyCreds : fetch_logs(cred, 1, TRUE)

SpecAny == InitAny /\ [][NextAny]_vars

C20_RadioTwoStep ==
    (last.ep = "/play_song_radio" /\ last.user = Aidan /\ last.session) =>
        /\ last.status = "ok"
        /\ last.gw = <<"play_song_radio">>
        /\ last.up # <<>> /\ last.up[1] = "recommendations"
        /\ \A i \in 1 .. Len(last.up) : last.up[i] = "start_playback(uris)" => i = 2
        /\ IF last.recs = RecRaise \/ last.recs = <<>>
           THEN /\ last.up = <<"recommendations">>
                /\ last.started = <<>>
                /\ last.tag \in {UpstreamError, "error: no recommendations found"}
           ELSE /\ last.up = <<"recommendations", "start_playback(uris)">>
                /\ last.started = last.recs

C20_Witness ==
    /\ last.ep = "/play_song_radio" /\ last.user = Aidan
    /\ last.tag = "started song radio"
    /\ last.started = RecUris

\* ---------------------------------------------------------------- who is the owner

\* C21: identify_user answers "Aidan" exactly when the credential is
\* non-empty, the configured owner secret is non-empty and the two are equal
\* once trimmed; every other input gets "User(<first 6 characters>)" or
\* "Anonymous", neither of which is "Aidan"; so with the owner secret unset no
\* credential is resolved to the owner.
C21_OwnerIff ==
    (last.ep = "identify_user") =>
        /\ (last.user = Aidan) <=>
              (/\ last.cred # None /\ last.cred # <<>>
               /\ AIDAN_API_KEY # <<>>
               /\ strip(last.cred) = strip(AIDAN_API_KEY))
        /\ (last.user # Aidan) => (last.user = GuestLabel(last.cred))
        /\ GuestLabel(last.cred) # Aidan
        /\ (AIDAN_API_KEY = <<>>) => (last.user # Aidan)

\* The owner secret is unset and a blank credential, which trims to the same
\* empty string, is resolved to a guest.
C21_Witness ==
    /\ last.ep = "identify_user"
    /\ AIDAN_API_KEY = <<>>
    /\ last.cred = <<" ">>
    /\ last.user = <<"U", "s", "e", "r", "(", " ", ")">>

\* ---------------------------------------------------------------- the answer to a concurrent guest request

\* C22: in the response to a guest mutating playback request, also when
\* other guest requests run at the same time, queue_length is the number of
\* entries of the queue returned in that response.
C22_LengthMatchesQueue ==
    \A t \in Threads :
       (thr[t].pc = "done" /\ thr[t].user # Aidan) =>
          thr[t].queue_length = Len(thr[t].queue)

\* ---------------------------------------------------------------- owner presence

\* The owner's online flag and last_played as the program sees them (the
\* defaults while no entry exists).
OwnerOnline == IF HasKey(STATE_MAP, OwnerKey) THEN heap[STATE_MAP[OwnerKey]].online ELSE FALSE

OwnerLastPlayed ==
    IF HasKey(STATE_MAP, OwnerKey) THEN heap[STATE_MAP[OwnerKey]].last_played ELSE None

====
